---- MODULE Spec2Model ----
(***************************************************************************)
(* Pipe fittings validated against reference tables (ts_jupyter).          *)
(*                                                                         *)
(* Numbers are fixed-point integers in thousandths (1000 stands for 1.0).  *)
(* A cell of a CSV file is a record [w, v]: w tells how the cell is        *)
(* written ("empty", "int", "dot" = decimal point, "comma" = decimal       *)
(* comma), v is the number it denotes.  A cell of a loaded DataFrame is a  *)
(* record [k, v]: k = "num" (a number), "nan" (missing) or "numtext" (a    *)
(* Python str holding the text of a number, which compares unequal to      *)
(* every number).  Execution codes are sequences of one-character strings. *)
(***************************************************************************)
EXTENDS Integers, Sequences, FiniteSets, TLC

VARIABLES files,   \* registered standard name -> contents of its CSV file
          cache,   \* lru_cache of get_df_data: <<[name, df]>>, most recent last
          call,    \* the last call made: operation and arguments
          res,     \* what that call produced: an entity or an error
          pipe,    \* the Pipe object install_pipe works on
          family,  \* the fitting class a run of SpecFit works with
          used     \* history: the names get_df_data has served, least recent first

vars == <<files, cache, call, res, pipe, family, used>>

---------------------------------------------------------------------------
(* Bounds of the model *)

MaxRows == 2      \* rows per reference table
MaxCount == 2     \* fitting count argument
MaxLen == 2       \* pipe length and install_pipe arguments, metres

---------------------------------------------------------------------------
(* Values *)

NaN == [k |-> "nan", v |-> 0]
Num(n) == [k |-> "num", v |-> n]
NumText(n) == [k |-> "numtext", v |-> n]

Empty == [w |-> "empty", v |-> 0]
IntCell(n) == [w |-> "int", v |-> n]
DotCell(n) == [w |-> "dot", v |-> n]
CommaCell(n) == [w |-> "comma", v |-> n]

\* numpy ==: a number equals a numeric cell of the same value; NaN and text
\* cells equal no number
Eq(x, c) == c.k = "num" /\ c.v = x

\* Series.dropna()
DropNa(s) == SelectSeq(s, LAMBDA c : c.k # "nan")

\* Series.unique() / DataFrame.drop_duplicates(): first occurrences, in order
RECURSIVE Unique(_)
Unique(s) ==
    IF s = <<>> THEN <<>>
    ELSE LET init == Unique(SubSeq(s, 1, Len(s) - 1))
             last == s[Len(s)]
         IN IF \E i \in DOMAIN init : init[i] = last THEN init
            ELSE Append(init, last)

Column(df, c) == [i \in DOMAIN df |-> df[i][c]]

Range(s) == {s[i] : i \in DOMAIN s}

---------------------------------------------------------------------------
(* utils.py: the registry, the loader and its cache *)

ElbowStd == "GOST 17375-2001"
TeeStd == "GOST 17376-2001"
TransitionStd == "GOST 17378-2001"
SupportStd == "KP OST 36-146-88"
PipeStds == {"GOST 8732-78", "GOST 8734-75", "GOST 10704-91"}
gost_paths == PipeStds \cup {ElbowStd, TeeStd, TransitionStd, SupportStd}
UnknownStd == "GOST 0-00"

CacheSize == 5

\* pd.read_csv types a column as a whole: numeric when every non-empty cell
\* parses as a number (digits with an optional decimal point), else object,
\* whose cells are str.  df.replace(',', '.', regex=True) then rewrites the
\* commas inside the str cells; no numeric coercion follows.
IsObjectColumn(file, c) ==
    \E i \in DOMAIN file : file[i][c].w \in {"comma", "text"}

ReplaceComma(s) == [i \in DOMAIN s |-> IF s[i] = "," THEN "." ELSE s[i]]

LoadCell(raw, object) ==
    CASE raw.w = "empty" -> NaN
      [] raw.w = "text" -> [k |-> "text", v |-> 0, s |-> ReplaceComma(raw.s)]
      [] OTHER -> IF object THEN NumText(raw.v) ELSE Num(raw.v)

read_csv(file) ==
    [i \in DOMAIN file |->
        [c \in DOMAIN file[i] |-> LoadCell(file[i][c], IsObjectColumn(file, c))]]

CacheIndex(c, name) == CHOOSE i \in DOMAIN c : c[i].name = name

Remove(s, i) == SubSeq(s, 1, i - 1) \o SubSeq(s, i + 1, Len(s))

\* (mutation) a hit leaves the order of the cache alone: first in, first out
get_df_data_Fifo(c, fs, gost_name) ==
    IF \E i \in DOMAIN c : c[i].name = gost_name
    THEN [ok |-> TRUE, df |-> c[CacheIndex(c, gost_name)].df, cache |-> c]
    ELSE IF gost_name \notin gost_paths
    THEN [ok |-> FALSE, df |-> <<>>, cache |-> c]
    ELSE LET df == read_csv(fs[gost_name])
             added == Append(c, [name |-> gost_name, df |-> df])
         IN [ok |-> TRUE, df |-> df,
             cache |-> IF Len(added) > CacheSize THEN Tail(added) ELSE added]

\* (mutation) room is made in a full cache before the function body runs, so
\* a call that raises has already evicted the oldest table
get_df_data_EvictFirst(c, fs, gost_name) ==
    IF \E i \in DOMAIN c : c[i].name = gost_name
    THEN LET i == CacheIndex(c, gost_name)
         IN [ok |-> TRUE, df |-> c[i].df,
             cache |-> Append(Remove(c, i), c[i])]
    ELSE LET room == IF Len(c) = CacheSize THEN Tail(c) ELSE c
         IN IF gost_name \notin gost_paths
            THEN [ok |-> FALSE, df |-> <<>>, cache |-> room]
            ELSE LET df == read_csv(fs[gost_name])
                 IN [ok |-> TRUE, df |-> df,
                     cache |-> Append(room, [name |-> gost_name, df |-> df])]

\* get_df_data under @lru_cache(maxsize=5).  Yields the outcome, the table
\* and the cache afterwards.
get_df_data(c, fs, gost_name) ==
    IF \E i \in DOMAIN c : c[i].name = gost_name
    THEN LET i == CacheIndex(c, gost_name)
         IN [ok |-> TRUE, df |-> c[i].df,
             cache |-> Append(Remove(c, i), c[i])]
    ELSE IF gost_name \notin gost_paths
    THEN [ok |-> FALSE, df |-> <<>>, cache |-> c]
    ELSE LET df == read_csv(fs[gost_name])
             added == Append(c, [name |-> gost_name, df |-> df])
         IN [ok |-> TRUE, df |-> df,
             cache |-> IF Len(added) > CacheSize THEN Tail(added) ELSE added]

\* the history of served names after gost_name was served
Touch(u, gost_name) ==
    Append(SelectSeq(u, LAMBDA n : n # gost_name), gost_name)

Err(kind, value, available) ==
    [kind |-> kind, value |-> value, available |-> available]

UnknownStandardErr(gost_name) == Err("UnknownStandard", gost_name, <<>>)

---------------------------------------------------------------------------
(* round(): nearest multiple of unit; Python rounds a tie to the even
   neighbour, and the float that reaches round() is the exact product only
   when it is representable in binary (exact), otherwise it may lie on either
   side of the decimal tie *)

RoundSet(p, unit, exact) ==
    LET lo == (p \div unit) * unit
        r == p - lo
    IN IF 2 * r < unit THEN {lo}
       ELSE IF 2 * r > unit THEN {lo + unit}
       ELSE IF ~exact THEN {lo, lo + unit}
       ELSE IF (lo \div unit) % 2 = 0 THEN {lo} ELSE {lo + unit}

\* a fixed-point value that a binary float holds exactly (a multiple of 1/8)
IsDyadic(m) == m % 125 = 0

Round2(p, exact) == RoundSet(p, 10, exact)
Round0(p, exact) == RoundSet(p, 1000, exact)

---------------------------------------------------------------------------
(* tee.py *)

\* (mutation) the combinations of every branch diameter: the D1 filter dropped
get_available_thickness_combinations_AnyBranch(df, tee_dn1, tee_dn2) ==
    LET filtered_df == SelectSeq(df, LAMBDA r : Eq(tee_dn1, r.D))
        pairs == [i \in DOMAIN filtered_df |-> <<filtered_df[i].T, filtered_df[i].T1>>]
        dropna == SelectSeq(pairs, LAMBDA p : p[1].k # "nan" /\ p[2].k # "nan")
    IN Unique(dropna)

\* get_available_thickness_combinations
get_available_thickness_combinations(df, tee_dn1, tee_dn2) ==
    LET filtered_df == SelectSeq(df, LAMBDA r : Eq(tee_dn1, r.D) /\ Eq(tee_dn2, r.D1))
        pairs == [i \in DOMAIN filtered_df |-> <<filtered_df[i].T, filtered_df[i].T1>>]
        dropna == SelectSeq(pairs, LAMBDA p : p[1].k # "nan" /\ p[2].k # "nan")
    IN Unique(dropna)

\* (mutation) the branch thickness checked before the main thickness
check_tee_BranchThicknessFirst(df, tee_dn1, tee_thicknes1, tee_dn2, tee_thicknes2) ==
    LET rowsD == SelectSeq(df, LAMBDA r : Eq(tee_dn1, r.D))
        rowsD1 == SelectSeq(df, LAMBDA r : Eq(tee_dn2, r.D1))
        df_tee == SelectSeq(df, LAMBDA r : /\ Eq(tee_dn1, r.D)
                                           /\ Eq(tee_thicknes1, r.T)
                                           /\ Eq(tee_dn2, r.D1)
                                           /\ Eq(tee_thicknes2, r.T1))
    IN IF ~ \E i \in DOMAIN df : Eq(tee_dn1, df[i].D)
       THEN [ok |-> FALSE, err |-> Err("UnknownDimension", tee_dn1, <<>>)]
       ELSE IF (\E i \in DOMAIN df : Eq(tee_dn2, df[i].D1))
               /\ ~ \E i \in DOMAIN rowsD1 : Eq(tee_thicknes2, rowsD1[i].T1)
       THEN [ok |-> FALSE,
             err |-> Err("UnknownBranchThickness", tee_thicknes2,
                         Unique(DropNa(Column(rowsD1, "T1"))))]
       ELSE IF ~ \E i \in DOMAIN rowsD : Eq(tee_thicknes1, rowsD[i].T)
       THEN [ok |-> FALSE,
             err |-> Err("UnknownThickness", tee_thicknes1,
                         Unique(DropNa(Column(rowsD, "T"))))]
       ELSE IF ~ \E i \in DOMAIN df : Eq(tee_dn2, df[i].D1)
       THEN [ok |-> FALSE, err |-> Err("UnknownBranchDimension", tee_dn2, <<>>)]
       ELSE IF df_tee = <<>>
       THEN [ok |-> FALSE,
             err |-> Err("NoMatchingCombination",
                         <<tee_dn1, tee_thicknes1, tee_dn2, tee_thicknes2>>,
                         get_available_thickness_combinations(df, tee_dn1, tee_dn2))]
       ELSE [ok |-> TRUE, rows |-> df_tee]

\* PipeTee.__check_tee: [ok, rows] when a row matches, else [ok, err]
check_tee(df, tee_dn1, tee_thicknes1, tee_dn2, tee_thicknes2) ==
    LET rowsD == SelectSeq(df, LAMBDA r : Eq(tee_dn1, r.D))
        rowsD1 == SelectSeq(df, LAMBDA r : Eq(tee_dn2, r.D1))
        df_tee == SelectSeq(df, LAMBDA r : /\ Eq(tee_dn1, r.D)
                                           /\ Eq(tee_thicknes1, r.T)
                                           /\ Eq(tee_dn2, r.D1)
                                           /\ Eq(tee_thicknes2, r.T1))
    IN IF ~ \E i \in DOMAIN df : Eq(tee_dn1, df[i].D)
       THEN [ok |-> FALSE, err |-> Err("UnknownDimension", tee_dn1, <<>>)]
       ELSE IF ~ \E i \in DOMAIN rowsD : Eq(tee_thicknes1, rowsD[i].T)
       THEN [ok |-> FALSE,
             err |-> Err("UnknownThickness", tee_thicknes1,
                         Unique(DropNa(Column(rowsD, "T"))))]
       ELSE IF ~ \E i \in DOMAIN df : Eq(tee_dn2, df[i].D1)
       THEN [ok |-> FALSE, err |-> Err("UnknownBranchDimension", tee_dn2, <<>>)]
       ELSE IF ~ \E i \in DOMAIN rowsD1 : Eq(tee_thicknes2, rowsD1[i].T1)
       THEN [ok |-> FALSE,
             err |-> Err("UnknownBranchThickness", tee_thicknes2,
                         Unique(DropNa(Column(rowsD1, "T1"))))]
       ELSE IF df_tee = <<>>
       THEN [ok |-> FALSE,
             err |-> Err("NoMatchingCombination",
                         <<tee_dn1, tee_thicknes1, tee_dn2, tee_thicknes2>>,
                         get_available_thickness_combinations(df, tee_dn1, tee_dn2))]
       ELSE [ok |-> TRUE, rows |-> df_tee]

\* (mutation) the total rounded to two decimals, as for an elbow
TeeTotalMass_TwoDecimals(count, mass) ==
    CASE mass.k = "num" -> {Num(t) : t \in Round2(count * mass.v, IsDyadic(mass.v))}
      [] mass.k = "nan" -> {NaN}
      [] OTHER -> {[k |-> "TypeError", v |-> 0]}

\* round(count * mass) with no digits: an int; a str mass is repeated count
\* times and round() rejects the str, a NaN mass cannot become an int
TeeTotalMass(count, mass) ==
    CASE mass.k = "num" -> {Num(t) : t \in Round0(count * mass.v, IsDyadic(mass.v))}
      [] mass.k = "nan" -> {[k |-> "ValueError", v |-> 0]}
      [] OTHER -> {[k |-> "TypeError", v |-> 0]}

\* PipeTee.__init__ after the table is fetched: the set of possible outcomes
PipeTee(df, tee_dn1, tee_thicknes1, tee_dn2, tee_thicknes2, tee_count, steel_grade, gost_name) ==
    LET checked == check_tee(df, tee_dn1, tee_thicknes1, tee_dn2, tee_thicknes2)
    IN IF ~checked.ok THEN {checked.err}
       ELSE LET checked_tee == checked.rows
                rowsD == SelectSeq(df, LAMBDA r : Eq(tee_dn1, r.D))
            IN { IF total.k \in {"ValueError", "TypeError"}
                 THEN Err(total.k, checked_tee[1].mass, <<>>)
                 ELSE [kind |-> "Tee",
                       nominal_diameter |-> rowsD[1].DN,
                       tee_dn1 |-> checked_tee[1].D,
                       tee_thicknes1 |-> checked_tee[1].T,
                       tee_dn2 |-> checked_tee[1].D1,
                       tee_thicknes2 |-> checked_tee[1].T1,
                       tee_count |-> tee_count,
                       steel_grade |-> steel_grade,
                       gost_name |-> gost_name,
                       tee_type |-> checked_tee[1].Execution,
                       mass_per_tee |-> checked_tee[1].mass,
                       total_mass |-> total]
                 : total \in TeeTotalMass(tee_count, checked_tee[1].mass) }

---------------------------------------------------------------------------
(* transition.py *)

\* PipeTransition.__check_transition
check_transition(df, dn1, thickness1, dn2, thickness2) ==
    LET rowsD == SelectSeq(df, LAMBDA r : Eq(dn1, r.D))
        rowsD1 == SelectSeq(df, LAMBDA r : Eq(dn2, r.D1))
        df_transition == SelectSeq(df, LAMBDA r : /\ Eq(dn1, r.D)
                                                  /\ Eq(thickness1, r.T)
                                                  /\ Eq(dn2, r.D1)
                                                  /\ Eq(thickness2, r.T1))
        dd1 == SelectSeq(df, LAMBDA r : Eq(dn1, r.D) /\ Eq(dn2, r.D1))
        pairs == [i \in DOMAIN dd1 |-> <<dd1[i].T, dd1[i].T1>>]
        available_combinations ==
            Unique(SelectSeq(pairs, LAMBDA p : p[1].k # "nan" /\ p[2].k # "nan"))
    IN IF ~ \E i \in DOMAIN df : Eq(dn1, df[i].D)
       THEN [ok |-> FALSE, err |-> Err("UnknownDimension", dn1, <<>>)]
       ELSE IF ~ \E i \in DOMAIN rowsD : Eq(thickness1, rowsD[i].T)
       THEN [ok |-> FALSE,
             err |-> Err("UnknownThickness", thickness1,
                         Unique(DropNa(Column(rowsD, "T"))))]
       ELSE IF ~ \E i \in DOMAIN df : Eq(dn2, df[i].D1)
       THEN [ok |-> FALSE,
             err |-> Err("UnknownBranchDimension", dn2,
                         Unique(DropNa(Column(rowsD, "D1"))))]
       ELSE IF ~ \E i \in DOMAIN rowsD1 : Eq(thickness2, rowsD1[i].T1)
       THEN [ok |-> FALSE,
             err |-> Err("UnknownBranchThickness", thickness2,
                         Unique(DropNa(Column(rowsD1, "T1"))))]
       ELSE IF df_transition = <<>>
       THEN [ok |-> FALSE,
             err |-> Err("NoMatchingCombination",
                         <<dn1, thickness1, dn2, thickness2>>,
                         available_combinations)]
       ELSE [ok |-> TRUE, rows |-> df_transition]

\* PipeTransition.__init__ after the table is fetched
PipeTransition(df, dn1, thickness1, dn2, thickness2, count, steel_grade, gost_name) ==
    LET checked == check_transition(df, dn1, thickness1, dn2, thickness2)
    IN IF ~checked.ok THEN {checked.err}
       ELSE LET checked_transition == checked.rows
                rowsD == SelectSeq(df, LAMBDA r : Eq(dn1, r.D))
            IN { IF total.k \in {"ValueError", "TypeError"}
                 THEN Err(total.k, checked_transition[1].mass, <<>>)
                 ELSE [kind |-> "Transition",
                       nominal_diameter |-> rowsD[1].DN,
                       dn1 |-> checked_transition[1].D,
                       thickness1 |-> checked_transition[1].T,
                       dn2 |-> checked_transition[1].D1,
                       thickness2 |-> checked_transition[1].T1,
                       count |-> count,
                       steel_grade |-> steel_grade,
                       gost_name |-> gost_name,
                       mass_per_transition |-> checked_transition[1].mass,
                       total_mass |-> total]
                 : total \in TeeTotalMass(count, checked_transition[1].mass) }

---------------------------------------------------------------------------
(* elbow.py *)

\* pd.to_numeric(errors='coerce') on one cell: the text of a number becomes
\* the number, any other text becomes NaN
to_numeric(c) ==
    CASE c.k = "num" -> c
      [] c.k = "numtext" -> Num(c.v)
      [] OTHER -> NaN

apply_to_numeric(df) ==
    [i \in DOMAIN df |-> [c \in DOMAIN df[i] |-> to_numeric(df[i][c])]]

valid_angles == <<45, 60, 90, 180>>

MassColumn(elbow_angle) ==
    CASE elbow_angle = 45 -> "Mass_45"
      [] elbow_angle = 60 -> "Mass_60"
      [] elbow_angle = 90 -> "Mass_90"
      [] elbow_angle = 180 -> "Mass_180"

\* PipeElbow.__check_elbow: the error raised, or NoErr
NoErr == [kind |-> "ok"]

\* (mutation) the thicknesses of the whole table, not of the diameter
check_elbow_AnyDiameter(df, elbow_dn, elbow_thickness, elbow_angle) ==
    LET available_thicknesses == Unique(DropNa(Column(df, "T")))
    IN IF ~ \E i \in DOMAIN df : Eq(elbow_dn, df[i].D)
       THEN Err("UnknownDimension", elbow_dn, <<>>)
       ELSE IF ~ \E i \in DOMAIN available_thicknesses :
                    Eq(elbow_thickness, available_thicknesses[i])
       THEN Err("UnknownThickness", elbow_thickness, available_thicknesses)
       ELSE IF elbow_angle \notin Range(valid_angles)
       THEN Err("UnknownAngle", elbow_angle, valid_angles)
       ELSE NoErr

\* (mutation) the angle checked before the diameter and the thickness
check_elbow_AngleFirst(df, elbow_dn, elbow_thickness, elbow_angle) ==
    LET rowsD == SelectSeq(df, LAMBDA r : Eq(elbow_dn, r.D))
        available_thicknesses == Unique(DropNa(Column(rowsD, "T")))
    IN IF elbow_angle \notin Range(valid_angles)
       THEN Err("UnknownAngle", elbow_angle, valid_angles)
       ELSE IF ~ \E i \in DOMAIN df : Eq(elbow_dn, df[i].D)
       THEN Err("UnknownDimension", elbow_dn, <<>>)
       ELSE IF ~ \E i \in DOMAIN available_thicknesses :
                    Eq(elbow_thickness, available_thicknesses[i])
       THEN Err("UnknownThickness", elbow_thickness, available_thicknesses)
       ELSE NoErr

check_elbow(df, elbow_dn, elbow_thickness, elbow_angle) ==
    LET rowsD == SelectSeq(df, LAMBDA r : Eq(elbow_dn, r.D))
        available_thicknesses == Unique(DropNa(Column(rowsD, "T")))
    IN IF ~ \E i \in DOMAIN df : Eq(elbow_dn, df[i].D)
       THEN Err("UnknownDimension", elbow_dn, <<>>)
       ELSE IF ~ \E i \in DOMAIN available_thicknesses :
                    Eq(elbow_thickness, available_thicknesses[i])
       THEN Err("UnknownThickness", elbow_thickness, available_thicknesses)
       ELSE IF elbow_angle \notin Range(valid_angles)
       THEN Err("UnknownAngle", elbow_angle, valid_angles)
       ELSE NoErr

\* round(count * mass, 2): a float; NaN stays NaN
ElbowTotalMass(count, mass) ==
    IF mass.k = "nan" THEN {NaN}
    ELSE {Num(t) : t \in Round2(count * mass.v, IsDyadic(mass.v))}

\* PipeElbow.__init__ after the table is fetched
PipeElbow(fetched, elbow_dn, elbow_thickness, elbow_angle, elbow_count, steel_grade, gost_name) ==
    LET df == apply_to_numeric(fetched)
        err == check_elbow(df, elbow_dn, elbow_thickness, elbow_angle)
    IN IF err # NoErr THEN {err}
       ELSE LET rowsD == SelectSeq(df, LAMBDA r : Eq(elbow_dn, r.D))
                rowsDT == SelectSeq(df, LAMBDA r : Eq(elbow_dn, r.D)
                                                   /\ Eq(elbow_thickness, r.T))
                mass_per_elbow == rowsDT[1][MassColumn(elbow_angle)]
            IN { [kind |-> "Elbow",
                  gost_name |-> gost_name,
                  elbow_dn |-> elbow_dn,
                  elbow_thickness |-> elbow_thickness,
                  elbow_angle |-> elbow_angle,
                  elbow_count |-> elbow_count,
                  steel_grade |-> steel_grade,
                  nominal_diameter |-> rowsD[1].DN,
                  elbow_type |-> IF elbow_angle <= 90 THEN 1 ELSE 2,
                  mass_per_elbow |-> mass_per_elbow,
                  total_mass |-> total]
                 : total \in ElbowTotalMass(elbow_count, mass_per_elbow) }

---------------------------------------------------------------------------
(* support.py; a str is a sequence of one-character strings *)

TextCell(s) == [w |-> "text", v |-> 0, s |-> s]

\* str.strip()
RECURSIVE Strip(_)
Strip(s) ==
    IF s # <<>> /\ Head(s) = " " THEN Strip(Tail(s))
    ELSE IF s # <<>> /\ s[Len(s)] = " " THEN Strip(SubSeq(s, 1, Len(s) - 1))
    ELSE s

\* str.split('/')
RECURSIVE Split(_)
Split(s) ==
    IF \E i \in DOMAIN s : s[i] = "/"
    THEN LET i == CHOOSE j \in DOMAIN s :
                      s[j] = "/" /\ \A h \in 1 .. j - 1 : s[h] # "/"
         IN <<SubSeq(s, 1, i - 1)>> \o Split(SubSeq(s, i + 1, Len(s)))
    ELSE <<s>>

\* '/'.join(list)
RECURSIVE Join(_)
Join(l) ==
    IF Len(l) = 0 THEN <<>>
    ELSE IF Len(l) = 1 THEN l[1]
    ELSE l[1] \o <<"/">> \o Join(Tail(l))

\* (mutation) the cell compared whole, not split
Alternatives_Unsplit(x) == <<Strip(x)>>

\* [item.strip() for item in x.split('/')]
Alternatives(x) == LET parts == Split(x) IN [i \in DOMAIN parts |-> Strip(parts[i])]

\* f"{support_type} {gost_name}"
FileName(support_type, gost_name) == support_type \o " " \o gost_name

\* PipeSupport.__check_support: [ok, row] or [ok, err]
check_support(df, dn, execution) ==
    LET filtered_df == SelectSeq(df, LAMBDA r : Eq(dn, r.dn))
    IN IF ~ \E i \in DOMAIN df : Eq(dn, df[i].dn)
       THEN [ok |-> FALSE, err |-> Err("UnknownDimension", dn, <<>>)]
       ELSE IF filtered_df = <<>>
       THEN [ok |-> FALSE, err |-> Err("UnknownDimension", dn, <<>>)]
       ELSE IF \E i \in DOMAIN filtered_df : filtered_df[i].Execution.k # "text"
       THEN [ok |-> FALSE, err |-> Err("AttributeError", dn, <<>>)]
       ELSE LET split_df == [i \in DOMAIN filtered_df |->
                                [filtered_df[i] EXCEPT
                                    !.Execution = Alternatives(filtered_df[i].Execution.s)]]
                valid_rows == SelectSeq(split_df,
                                  LAMBDA r : Strip(execution) \in Range(r.Execution))
                \* sorted({...}): the distinct alternatives, in sorted order
                available_executions ==
                    UNION {Range(split_df[i].Execution) : i \in DOMAIN split_df}
            IN IF valid_rows = <<>>
               THEN [ok |-> FALSE,
                     err |-> Err("UnknownExecution", execution, available_executions)]
               ELSE [ok |-> TRUE,
                     row |-> [valid_rows[1] EXCEPT
                                 !.Execution = Join(valid_rows[1].Execution)]]

\* PipeSupport.__init__ after the table is fetched
PipeSupport(df, dn, support_type, execution, steel_grade, gost_name) ==
    LET checked == check_support(df, dn, execution)
    IN IF ~checked.ok THEN checked.err
       ELSE LET checked_support == checked.row
            IN IF checked_support.mass.k = "text"
               THEN Err("ValueError", checked_support.mass, <<>>)
               ELSE [kind |-> "Support",
                     dn |-> checked_support.dn,
                     support_type |-> support_type,
                     execution |-> execution,
                     steel_grade |-> steel_grade,
                     gost_name |-> gost_name,
                     mass_per_support |-> to_numeric(checked_support.mass)]

---------------------------------------------------------------------------
(* pipe.py *)

Pipe__gost_paths == PipeStds

Digit(n) == <<"0", "1", "2", "3", "4", "5", "6", "7", "8", "9">>[n + 1]

\* str(x) of an int below 10 or of a float below 10 with one decimal
PyStr(x) ==
    IF x.int THEN <<Digit(x.v \div 1000)>>
    ELSE <<Digit(x.v \div 1000), ".", Digit((x.v % 1000) \div 100)>>

\* str(pipe_thickness).replace('.', ',')
ThicknessStr(pipe_thickness) ==
    LET t == PyStr(pipe_thickness)
    IN [i \in DOMAIN t |-> IF t[i] = "." THEN "," ELSE t[i]]

\* the thickness columns of a pipe file: header text and the cell it names
PipeColumns ==
    << [name |-> <<"3", ",", "5">>, field |-> "c1"],
       [name |-> <<"4">>, field |-> "c2"] >>

\* df[df['dn'] == pipe_dn].dropna(axis=1, how='all'), the columns but dn
ColumnsWithoutDn(df, pipe_dn) ==
    LET rows == SelectSeq(df, LAMBDA r : Eq(pipe_dn, r.dn))
        kept == SelectSeq(PipeColumns,
                    LAMBDA c : \E i \in DOMAIN rows : rows[i][c.field].k # "nan")
    IN [i \in DOMAIN kept |-> kept[i].name]

\* Pipe.__check_pipe
check_pipe(df, pipe_dn, pipe_thickness) ==
    LET columns_without_dn == ColumnsWithoutDn(df, pipe_dn)
        pipe_thickness_str == ThicknessStr(pipe_thickness)
    IN IF ~ \E i \in DOMAIN df : Eq(pipe_dn, df[i].dn)
       THEN Err("UnknownDimension", pipe_dn, <<>>)
       ELSE IF pipe_thickness_str \notin Range(columns_without_dn)
       THEN Err("UnknownThickness", pipe_thickness_str, columns_without_dn)
       ELSE NoErr

\* round(length * mass_per_meter, 2)
PipeMass(pipe_length, mass_per_meter) ==
    IF mass_per_meter.k = "nan" THEN {NaN}
    ELSE {Num(t) : t \in Round2(pipe_length * mass_per_meter.v,
                                IsDyadic(mass_per_meter.v))}

\* Pipe.__init__: the possible outcomes; the installation attributes do not
\* exist until install_pipe succeeds (installation = <<>>)
Pipe(fs, gost_name, pipe_dn, pipe_thickness, pipe_length) ==
    IF gost_name \notin Pipe__gost_paths THEN {UnknownStandardErr(gost_name)}
    ELSE LET df == apply_to_numeric(read_csv(fs[gost_name]))
             err == check_pipe(df, pipe_dn, pipe_thickness)
         IN IF err # NoErr THEN {err}
            ELSE LET rows == SelectSeq(df, LAMBDA r : Eq(pipe_dn, r.dn))
                     col == CHOOSE c \in Range(PipeColumns) :
                                c.name = ThicknessStr(pipe_thickness)
                     mass_per_meter == rows[1][col.field]
                 IN { [kind |-> "Pipe",
                       gost_name |-> gost_name,
                       pipe_length |-> pipe_length,
                       pipe_dn |-> pipe_dn,
                       pipe_thickness |-> pipe_thickness,
                       mass_per_meter |-> mass_per_meter,
                       pipe_mass |-> m,
                       installation |-> <<>>]
                      : m \in PipeMass(pipe_length, mass_per_meter) }

\* (mutation) an installation as long as the pipe refused
install_pipe_Strict(self, length_0_8m, length_8_10m, length_over_10m) ==
    LET total_installation_length == length_0_8m + length_8_10m + length_over_10m
    IN IF total_installation_length >= self.pipe_length
       THEN [res |-> Err("InstallationLengthExceeded", total_installation_length,
                         <<self.pipe_length>>),
             self |-> self]
       ELSE [res |-> [kind |-> "True"],
             self |-> [self EXCEPT
                          !.installation = <<length_0_8m, length_8_10m, length_over_10m>>]]

\* (mutation) the lengths recorded before the sum is validated
install_pipe_StoreFirst(self, length_0_8m, length_8_10m, length_over_10m) ==
    LET total_installation_length == length_0_8m + length_8_10m + length_over_10m
        stored == [self EXCEPT
                      !.installation = <<length_0_8m, length_8_10m, length_over_10m>>]
    IN IF total_installation_length > self.pipe_length
       THEN [res |-> Err("InstallationLengthExceeded", total_installation_length,
                         <<self.pipe_length>>),
             self |-> stored]
       ELSE [res |-> [kind |-> "True"], self |-> stored]

\* (mutation) the third length left out of the validated total
install_pipe_PartialSum(self, length_0_8m, length_8_10m, length_over_10m) ==
    LET total_installation_length == length_0_8m + length_8_10m
    IN IF total_installation_length > self.pipe_length
       THEN [res |-> Err("InstallationLengthExceeded", total_installation_length,
                         <<self.pipe_length>>),
             self |-> self]
       ELSE [res |-> [kind |-> "True"],
             self |-> [self EXCEPT
                          !.installation = <<length_0_8m, length_8_10m, length_over_10m>>]]

\* Pipe.install_pipe: the result and the pipe afterwards
install_pipe(self, length_0_8m, length_8_10m, length_over_10m) ==
    LET total_installation_length == length_0_8m + length_8_10m + length_over_10m
    IN IF total_installation_length > self.pipe_length
       THEN [res |-> Err("InstallationLengthExceeded", total_installation_length,
                         <<self.pipe_length>>),
             self |-> self]
       ELSE [res |-> [kind |-> "True"],
             self |-> [self EXCEPT
                          !.installation = <<length_0_8m, length_8_10m, length_over_10m>>]]

---------------------------------------------------------------------------
(* Input domains *)

Diameters == {1000, 2000}
Thicknesses == {1000, 2000}
ElbowThicknesses == {1000, 1500}
Angles == {30, 45, 60, 90, 180}
Counts == 1 .. MaxCount
Lengths == 0 .. MaxLen
InstallLengths == -1 .. MaxLen
SteelDefault == "Steel 20"
SupportSteelDefault == "VSt3ps"
PipeStd == "GOST 8732-78"

NoPipe == [kind |-> "none"]
NoCall == [op |-> "none"]
NoRes == [kind |-> "none"]

TablesOf(rows) == UNION { [1 .. n -> rows] : n \in 0 .. MaxRows }

\* Tee and transition rows.  DN, execution and mass vary with T1 here, so
\* that rows of one D carry different DN.  (A transition file has no
\* Execution column; the cell is carried and never read.)
TeeDerived(t1) ==
    IF t1 = 1000
    THEN [DN |-> IntCell(10000), Execution |-> IntCell(1000), mass |-> IntCell(3000)]
    ELSE [DN |-> IntCell(20000), Execution |-> IntCell(2000), mass |-> DotCell(2500)]

TeeRow(d, t, d1, t1) ==
    [D |-> IntCell(d), T |-> t, D1 |-> IntCell(d1), T1 |-> IntCell(t1),
     DN |-> TeeDerived(t1).DN, Execution |-> TeeDerived(t1).Execution,
     mass |-> TeeDerived(t1).mass]

TeeFileRows ==
    { TeeRow(d, IntCell(t), d1, t1) :
        d \in Diameters, t \in Thicknesses, d1 \in Diameters, t1 \in Thicknesses }
    \cup { TeeRow(d, Empty, 1000, 1000) : d \in Diameters }

\* Elbow rows: a thickness may be missing, whole or written with a decimal
\* comma; masses may be missing
ElbowDerived ==
    { [DN |-> IntCell(10000), Mass_45 |-> CommaCell(125), Mass_60 |-> CommaCell(250),
       Mass_90 |-> CommaCell(1005), Mass_180 |-> IntCell(2000)],
      [DN |-> IntCell(20000), Mass_45 |-> IntCell(3000), Mass_60 |-> Empty,
       Mass_90 |-> IntCell(4000), Mass_180 |-> Empty] }

ElbowFileRows ==
    { [D |-> IntCell(d), T |-> t, DN |-> x.DN, Mass_45 |-> x.Mass_45,
       Mass_60 |-> x.Mass_60, Mass_90 |-> x.Mass_90, Mass_180 |-> x.Mass_180]
      : d \in Diameters, t \in {Empty, IntCell(1000), CommaCell(1500)},
        x \in ElbowDerived }

\* Support rows
A11 == <<"A", "1", "1">>
AC11 == <<"A", "C", "1", "1">>
A12 == <<"A", "1", "2">>
A1 == <<"A", "1">>
ExecutionCells ==
    { A11 \o <<"/">> \o AC11,
      A12 \o <<" ", "/", " ">> \o A1,
      A11 }
ExecutionInputs ==
    { A11, AC11, A1, A11 \o <<"/">> \o AC11, <<" ">> \o A12 \o <<" ">>,
      <<"C", "1", "1">> }

SupportFileRows ==
    { [dn |-> IntCell(d), Execution |-> TextCell(e), mass |-> CommaCell(2500)]
      : d \in Diameters, e \in ExecutionCells }

\* Pipe rows: one cell per thickness column, the mass of one metre
PipeFileRows ==
    { [dn |-> IntCell(d), c1 |-> a, c2 |-> b]
      : d \in Diameters, a \in {Empty, CommaCell(1005)}, b \in {Empty, IntCell(2000)} }

PipeThicknesses ==
    { [int |-> FALSE, v |-> 3500], [int |-> TRUE, v |-> 4000],
      [int |-> FALSE, v |-> 4000], [int |-> TRUE, v |-> 3000] }

DefaultFiles == [n \in gost_paths |-> <<>>]

\* Arguments of the constructors: every combination under the class's own
\* standard, and one call that names an unregistered standard
TeeArgs(std, counts) ==
    { [dn1 |-> d, t1 |-> t, dn2 |-> d1, t2 |-> t1, count |-> n, gost_name |-> std]
      : d \in Diameters, t \in Thicknesses, d1 \in Diameters, t1 \in Thicknesses,
        n \in counts }
    \cup { [dn1 |-> 1000, t1 |-> 1000, dn2 |-> 1000, t2 |-> 1000, count |-> 1,
            gost_name |-> UnknownStd] }

ElbowArgs(angles, counts) ==
    { [dn |-> d, t |-> t, angle |-> a, count |-> n, gost_name |-> ElbowStd]
      : d \in Diameters, t \in ElbowThicknesses, a \in angles, n \in counts }
    \cup { [dn |-> 1000, t |-> 1000, angle |-> 90, count |-> 1,
            gost_name |-> UnknownStd] }

SupportArgs ==
    { [dn |-> d, support_type |-> "KP", execution |-> e, gost_name |-> "OST 36-146-88"]
      : d \in Diameters, e \in ExecutionInputs }
    \cup { [dn |-> 1000, support_type |-> "KP", execution |-> A11,
            gost_name |-> UnknownStd] }

PipeArgs(dns, thicknesses, lengths) ==
    { [gost_name |-> PipeStd, dn |-> d, t |-> t, length |-> l]
      : d \in dns, t \in thicknesses, l \in lengths }
    \cup { [gost_name |-> UnknownStd, dn |-> 1000, t |-> [int |-> TRUE, v |-> 4000],
            length |-> 1] }

---------------------------------------------------------------------------
(* The operations *)

TeeCall(args) ==
    \E a \in args :
        LET got == get_df_data(cache, files, a.gost_name)
        IN /\ call' = [op |-> "PipeTee", a |-> a]
           /\ cache' = got.cache
           /\ used' = IF got.ok THEN Touch(used, a.gost_name) ELSE used
           /\ IF ~got.ok THEN res' = UnknownStandardErr(a.gost_name)
              ELSE res' \in PipeTee(got.df, a.dn1, a.t1, a.dn2, a.t2, a.count,
                                    SteelDefault, a.gost_name)
           /\ UNCHANGED <<files, pipe, family>>

TransitionCall(args) ==
    \E a \in args :
        LET got == get_df_data(cache, files, a.gost_name)
        IN /\ call' = [op |-> "PipeTransition", a |-> a]
           /\ cache' = got.cache
           /\ used' = IF got.ok THEN Touch(used, a.gost_name) ELSE used
           /\ IF ~got.ok THEN res' = UnknownStandardErr(a.gost_name)
              ELSE res' \in PipeTransition(got.df, a.dn1, a.t1, a.dn2, a.t2, a.count,
                                           SteelDefault, a.gost_name)
           /\ UNCHANGED <<files, pipe, family>>

\* (mutation) the numeric coercion done in place, on the table of the cache
ElbowCall_InPlace(args) ==
    \E a \in args :
        LET got == get_df_data(cache, files, a.gost_name)
        IN /\ call' = [op |-> "PipeElbow", a |-> a]
           /\ cache' = IF ~got.ok THEN got.cache
                       ELSE [got.cache EXCEPT
                                ![Len(got.cache)].df = apply_to_numeric(got.df)]
           /\ used' = IF got.ok THEN Touch(used, a.gost_name) ELSE used
           /\ IF ~got.ok THEN res' = UnknownStandardErr(a.gost_name)
              ELSE res' \in PipeElbow(got.df, a.dn, a.t, a.angle, a.count,
                                      SteelDefault, a.gost_name)
           /\ UNCHANGED <<files, pipe, family>>

ElbowCall(args) ==
    \E a \in args :
        LET got == get_df_data(cache, files, a.gost_name)
        IN /\ call' = [op |-> "PipeElbow", a |-> a]
           /\ cache' = got.cache
           /\ used' = IF got.ok THEN Touch(used, a.gost_name) ELSE used
           /\ IF ~got.ok THEN res' = UnknownStandardErr(a.gost_name)
              ELSE res' \in PipeElbow(got.df, a.dn, a.t, a.angle, a.count,
                                      SteelDefault, a.gost_name)
           /\ UNCHANGED <<files, pipe, family>>

SupportCall(args) ==
    \E a \in args :
        LET file_name == FileName(a.support_type, a.gost_name)
            got == get_df_data(cache, files, file_name)
        IN /\ call' = [op |-> "PipeSupport", a |-> a]
           /\ cache' = got.cache
           /\ used' = IF got.ok THEN Touch(used, file_name) ELSE used
           /\ IF ~got.ok THEN res' = UnknownStandardErr(file_name)
              ELSE res' = PipeSupport(got.df, a.dn, a.support_type, a.execution,
                                      SupportSteelDefault, a.gost_name)
           /\ UNCHANGED <<files, pipe, family>>

\* p = Pipe(...): a failed construction leaves the earlier object in place
PipeCall(args) ==
    \E a \in args :
        /\ call' = [op |-> "Pipe", a |-> a]
        /\ res' \in Pipe(files, a.gost_name, a.dn, a.t, a.length)
        /\ pipe' = IF res'.kind = "Pipe" THEN res' ELSE pipe
        /\ UNCHANGED <<files, cache, family, used>>

InstallPipe ==
    /\ pipe # NoPipe
    /\ \E x \in InstallLengths, y \in InstallLengths, z \in InstallLengths :
          LET r == install_pipe(pipe, x, y, z)
          IN /\ call' = [op |-> "install_pipe", a |-> <<x, y, z>>,
                         before |-> pipe]
             /\ res' = r.res
             /\ pipe' = r.self
             /\ UNCHANGED <<files, cache, family, used>>

---------------------------------------------------------------------------
(* SpecFit: constructions of one fitting class over every table of that
   class.  The classes share nothing but the table cache. *)

Families == {"tee", "transition", "elbow", "support", "pipe"}

StdOf(fam) ==
    CASE fam = "tee" -> TeeStd
      [] fam = "transition" -> TransitionStd
      [] fam = "elbow" -> ElbowStd
      [] fam = "support" -> SupportStd
      [] fam = "pipe" -> PipeStd

RowsOf(fam) ==
    CASE fam \in {"tee", "transition"} -> TeeFileRows
      [] fam = "elbow" -> ElbowFileRows
      [] fam = "support" -> SupportFileRows
      [] fam = "pipe" -> PipeFileRows

InitFit ==
    /\ family \in Families
    /\ \E f \in TablesOf(RowsOf(family)) :
          files = [DefaultFiles EXCEPT ![StdOf(family)] = f]
    /\ cache = <<>>
    /\ used = <<>>
    /\ call = NoCall
    /\ res = NoRes
    /\ pipe = NoPipe

ConstructTee == family = "tee" /\ TeeCall(TeeArgs(TeeStd, {1}))
ConstructTransition == family = "transition" /\ TransitionCall(TeeArgs(TransitionStd, {1}))
ConstructElbow == family = "elbow" /\ ElbowCall(ElbowArgs(Angles, {1}))
ConstructSupport == family = "support" /\ SupportCall(SupportArgs)
ConstructPipe == family = "pipe" /\ PipeCall(PipeArgs(Diameters, PipeThicknesses, {1}))

NextFit ==
    \/ ConstructTee
    \/ ConstructTransition
    \/ ConstructElbow
    \/ ConstructSupport
    \/ ConstructPipe

SpecFit == InitFit /\ [][NextFit]_vars

---------------------------------------------------------------------------
(* What a reference table says, read off the file itself *)

\* the file cell c holds the number x
Holds(c, x) == c.w # "empty" /\ c.v = x

\* the number a non-empty file cell holds, as a value
ValueOf(c) == IF c.w = "empty" THEN NaN ELSE Num(c.v)

NoDuplicates(s) == \A i, j \in DOMAIN s : s[i] = s[j] => i = j

IsTeeCall == call.op \in {"PipeTee", "PipeTransition"} /\ call.a.gost_name # UnknownStd
IsElbowCall == call.op = "PipeElbow" /\ call.a.gost_name # UnknownStd
IsSupportCall == call.op = "PipeSupport" /\ call.a.gost_name # UnknownStd
IsPipeCall == call.op = "Pipe" /\ call.a.gost_name # UnknownStd

\* the file behind the last call
CallFile ==
    IF call.op = "PipeSupport" THEN files[SupportStd] ELSE files[call.a.gost_name]

\* the five checks of a tee or transition, in the order of the specification
TeeChecks ==
    LET f == CallFile
        a == call.a
    IN << \E i \in DOMAIN f : Holds(f[i].D, a.dn1),
          \E i \in DOMAIN f : Holds(f[i].D, a.dn1) /\ Holds(f[i].T, a.t1),
          \E i \in DOMAIN f : Holds(f[i].D1, a.dn2),
          \E i \in DOMAIN f : Holds(f[i].D1, a.dn2) /\ Holds(f[i].T1, a.t2),
          \E i \in DOMAIN f : /\ Holds(f[i].D, a.dn1) /\ Holds(f[i].T, a.t1)
                              /\ Holds(f[i].D1, a.dn2) /\ Holds(f[i].T1, a.t2) >>

TeeErrors ==
    << "UnknownDimension", "UnknownThickness", "UnknownBranchDimension",
       "UnknownBranchThickness", "NoMatchingCombination" >>

\* C1: a Tee or Transition construction raises the error of check k exactly
\* when check k is the first of the five checks, taken in the order primary
\* diameter, thickness, branch diameter, branch thickness, full combination,
\* that fails.
C1_FirstFailingCheck ==
    IsTeeCall =>
        \A k \in 1 .. 5 :
            (res.kind = TeeErrors[k])
                <=> (~TeeChecks[k] /\ \A j \in 1 .. k - 1 : TeeChecks[j])

\* an input that fails both the thickness check and the branch-thickness
\* check is answered with the thickness error
C1_Witness ==
    /\ IsTeeCall
    /\ TeeChecks[1] /\ ~TeeChecks[2] /\ TeeChecks[3] /\ ~TeeChecks[4]
    /\ res.kind = "UnknownThickness"

\* the rows of the file of the given diameter pair, as (T, T1) pairs; a row
\* that lacks one of the two thicknesses has no pair
PairsOfDiameterPair ==
    LET f == CallFile
    IN { <<ValueOf(f[i].T), ValueOf(f[i].T1)>> :
           i \in { j \in DOMAIN f : /\ Holds(f[j].D, call.a.dn1)
                                    /\ Holds(f[j].D1, call.a.dn2)
                                    /\ f[j].T.w # "empty"
                                    /\ f[j].T1.w # "empty" } }

C5_WitnessEmpty ==
    IsTeeCall /\ res.kind = "NoMatchingCombination" /\ res.available = <<>>

\* the first row of the file behind the last call that satisfies P
FirstRow(P(_)) ==
    LET f == CallFile
        i == CHOOSE j \in DOMAIN f : P(f[j]) /\ \A h \in 1 .. j - 1 : ~P(f[h])
    IN f[i]

\* a thickness column of a pipe file, by the number its header denotes
DigitValue(ch) == CHOOSE n \in 0 .. 9 : Digit(n) = ch
HeaderNumber(name) ==
    IF Len(name) = 1 THEN 1000 * DigitValue(name[1])
    ELSE 1000 * DigitValue(name[1]) + 100 * DigitValue(name[3])

\* the thickness columns that hold a value in the rows of the given dn
PipeColumnsOfDn ==
    { c \in Range(PipeColumns) :
        \E i \in DOMAIN CallFile :
            Holds(CallFile[i].dn, call.a.dn) /\ CallFile[i][c.field].w # "empty" }

\* the thicknesses the file gives for the primary diameter d
ThicknessesOfDiameter(d) ==
    { ValueOf(CallFile[i].T) :
        i \in { j \in DOMAIN CallFile :
                  Holds(CallFile[j].D, d) /\ CallFile[j].T.w # "empty" } }

\* C6: when the primary diameter is in the table and the given thickness does
\* not occur for it, Pipe, Elbow, Tee and Transition fail with the thickness
\* error, whose list holds each thickness defined for that diameter once and
\* nothing else (Pipe: the headers of the thickness columns that hold a value
\* in the rows of that dn).
C6_ThicknessList ==
    /\ (IsTeeCall /\ TeeChecks[1]) /\ ~TeeChecks[2] =>
          /\ res.kind = "UnknownThickness"
          /\ Range(res.available) = ThicknessesOfDiameter(call.a.dn1)
          /\ NoDuplicates(res.available)
    /\ ( /\ IsElbowCall
         /\ \E i \in DOMAIN CallFile : Holds(CallFile[i].D, call.a.dn)
         /\ ~ \E i \in DOMAIN CallFile :
                 Holds(CallFile[i].D, call.a.dn) /\ Holds(CallFile[i].T, call.a.t) ) =>
          /\ res.kind = "UnknownThickness"
          /\ Range(res.available) = ThicknessesOfDiameter(call.a.dn)
          /\ NoDuplicates(res.available)
    /\ ( /\ IsPipeCall
         /\ \E i \in DOMAIN CallFile : Holds(CallFile[i].dn, call.a.dn)
         /\ ~ \E c \in PipeColumnsOfDn : HeaderNumber(c.name) = call.a.t.v ) =>
          /\ res.kind = "UnknownThickness"
          /\ Range(res.available) = {c.name : c \in PipeColumnsOfDn}
          /\ NoDuplicates(res.available)

\* an elbow thickness error that lists one thickness while the file has a
\* second row of that diameter (the same thickness again, or none)
C6_Witness ==
    /\ IsElbowCall
    /\ res.kind = "UnknownThickness"
    /\ Len(res.available) = 1
    /\ Cardinality({i \in DOMAIN CallFile : Holds(CallFile[i].D, call.a.dn)}) = 2

C6_WitnessPipe ==
    IsPipeCall /\ res.kind = "UnknownThickness" /\ Len(res.available) = 2

C6_WitnessTee ==
    IsTeeCall /\ res.kind = "UnknownThickness" /\ Len(res.available) = 1
    /\ Cardinality({i \in DOMAIN CallFile : Holds(CallFile[i].D, call.a.dn1)}) = 2

\* x is y without its leading and trailing blanks
IsTrimOf(x, y) ==
    \E p \in 1 .. Len(y) + 1, q \in 0 .. Len(y) :
        /\ p <= q + 1
        /\ x = SubSeq(y, p, q)
        /\ \A h \in 1 .. p - 1 : y[h] = " "
        /\ \A h \in q + 1 .. Len(y) : y[h] = " "
        /\ x # <<>> => x[1] # " " /\ x[Len(x)] # " "

\* the pieces of a cell between its slashes
PiecesOf(cell) ==
    { SubSeq(cell, i + 1, j) :
        <<i, j>> \in { ij \in (0 .. Len(cell)) \X (0 .. Len(cell)) :
                         /\ ij[1] <= ij[2]
                         /\ ij[1] = 0 \/ cell[ij[1]] = "/"
                         /\ ij[2] = Len(cell) \/ cell[ij[2] + 1] = "/"
                         /\ \A h \in ij[1] + 1 .. ij[2] : cell[h] # "/" } }

\* execution, trimmed, is one of the trimmed alternatives of the cell
IsAlternativeOf(execution, cell) ==
    \E piece \in PiecesOf(cell) :
        \E x \in {SubSeq(piece, p, q) : p \in 1 .. Len(piece) + 1, q \in 0 .. Len(piece)} :
            IsTrimOf(x, piece) /\ IsTrimOf(x, execution)

SupportRowMatches(r) ==
    Holds(r.dn, call.a.dn) /\ IsAlternativeOf(call.a.execution, r.Execution.s)

\* C4: for a diameter present in the table, a Support is constructed exactly
\* when the trimmed execution equals one of the trimmed '/'-separated
\* alternatives of the Execution cell of some row of that diameter; otherwise
\* the construction fails with UnknownExecution.
C4_ExecutionAlternatives ==
    (IsSupportCall /\ \E i \in DOMAIN CallFile : Holds(CallFile[i].dn, call.a.dn)) =>
        LET valid == \E i \in DOMAIN CallFile : SupportRowMatches(CallFile[i])
        IN /\ res.kind = "Support" <=> valid
           /\ ~valid => res.kind = "UnknownExecution"

\* the second alternative of the cell A11/AC11 validates
C4_Witness ==
    /\ IsSupportCall
    /\ res.kind = "Support"
    /\ call.a.execution = AC11
    /\ \A i \in DOMAIN CallFile :
          Holds(CallFile[i].dn, call.a.dn) =>
              CallFile[i].Execution.s = A11 \o <<"/">> \o AC11

\* against the cell A11/AC11 alone, the prefix A1 and the whole cell fail
C4_WitnessPrefix ==
    /\ IsSupportCall
    /\ res.kind = "UnknownExecution"
    /\ call.a.execution = A1
    /\ \A i \in DOMAIN CallFile :
          Holds(CallFile[i].dn, call.a.dn) =>
              CallFile[i].Execution.s = A11 \o <<"/">> \o AC11

C4_WitnessWholeCell ==
    /\ IsSupportCall
    /\ res.kind = "UnknownExecution"
    /\ call.a.execution = A11 \o <<"/">> \o AC11
    /\ \A i \in DOMAIN CallFile :
          Holds(CallFile[i].dn, call.a.dn) =>
              CallFile[i].Execution.s = A11 \o <<"/">> \o AC11

ElbowRowMatches(r) == Holds(r.D, call.a.dn) /\ Holds(r.T, call.a.t)

TeeRowMatches(r) ==
    /\ Holds(r.D, call.a.dn1) /\ Holds(r.T, call.a.t1)
    /\ Holds(r.D1, call.a.dn2) /\ Holds(r.T1, call.a.t2)

\* C7: for a (D, T) pair of the elbow table and an angle of 45, 60, 90 or
\* 180, the construction succeeds with a defined mass_per_elbow, the value of
\* column Mass_<angle> of the row with that D and T.
C7_ElbowMass ==
    ( /\ IsElbowCall
      /\ call.a.angle \in {45, 60, 90, 180}
      /\ \E i \in DOMAIN CallFile : ElbowRowMatches(CallFile[i]) ) =>
        /\ res.kind = "Elbow"
        /\ res.mass_per_elbow.k = "num"
        /\ res.mass_per_elbow = ValueOf(FirstRow(ElbowRowMatches)[MassColumn(call.a.angle)])

\* the rows of the file that match the specification of the last call
MatchingRows ==
    { i \in DOMAIN CallFile :
        CASE call.op \in {"PipeTee", "PipeTransition"} -> TeeRowMatches(CallFile[i])
          [] call.op = "PipeElbow" -> ElbowRowMatches(CallFile[i])
          [] call.op = "PipeSupport" -> SupportRowMatches(CallFile[i]) }

\* C8: an Elbow, Tee, Transition or Support exists only when exactly one row
\* of the table matches the specification.
C8_UniqueMatchingRow ==
    res.kind \in {"Elbow", "Tee", "Transition", "Support"} =>
        Cardinality(MatchingRows) = 1

\* C9: the nominal_diameter of a constructed Tee, Transition or Elbow is the
\* DN of the row that matched the full specification, the row that supplies
\* the mass.
C9_NominalDiameterOfMatchedRow ==
    /\ res.kind \in {"Tee", "Transition"} =>
          res.nominal_diameter = ValueOf(FirstRow(TeeRowMatches).DN)
    /\ res.kind = "Elbow" =>
          res.nominal_diameter = ValueOf(FirstRow(ElbowRowMatches).DN)

ElbowDiameterKnown == \E i \in DOMAIN CallFile : Holds(CallFile[i].D, call.a.dn)

ElbowThicknessKnown == \E i \in DOMAIN CallFile : ElbowRowMatches(CallFile[i])

PermittedAngles == {45, 60, 90, 180}

\* C12: no Elbow has an angle outside {45, 60, 90, 180}: a construction with
\* such an angle fails, with UnknownAngle listing the four permitted angles
\* when the diameter and the thickness are valid, and with the diameter or
\* thickness error when one of those is invalid.
C12_AngleCheckedLast ==
    /\ res.kind = "Elbow" => res.elbow_angle \in PermittedAngles
    /\ (IsElbowCall /\ call.a.angle \notin PermittedAngles) =>
          /\ res.kind # "Elbow"
          /\ (ElbowDiameterKnown /\ ElbowThicknessKnown) =>
                /\ res.kind = "UnknownAngle"
                /\ res.value = call.a.angle
                /\ Range(res.available) = PermittedAngles
                /\ Len(res.available) = 4
          /\ ~ElbowDiameterKnown => res.kind = "UnknownDimension"
          /\ (ElbowDiameterKnown /\ ~ElbowThicknessKnown) =>
                res.kind = "UnknownThickness"

\* an angle of 30 with a diameter and thickness of the table
C12_Witness ==
    /\ IsElbowCall
    /\ call.a.angle = 30
    /\ ElbowThicknessKnown
    /\ res.kind = "UnknownAngle"

\* an angle of 30 with a thickness the diameter does not have
C12_WitnessThickness ==
    /\ IsElbowCall
    /\ call.a.angle = 30
    /\ ElbowDiameterKnown /\ ~ElbowThicknessKnown
    /\ res.kind = "UnknownThickness"

\* the numbers a column of the file behind the last call holds
ValuesOfColumn(c) ==
    { ValueOf(CallFile[i][c]) :
        i \in { j \in DOMAIN CallFile : CallFile[j][c].w # "empty" } }

\* the branch diameters the file gives for the primary diameter d
BranchDiametersOfDiameter(d) ==
    { ValueOf(CallFile[i].D1) :
        i \in { j \in DOMAIN CallFile :
                  Holds(CallFile[j].D, d) /\ CallFile[j].D1.w # "empty" } }

\* the branch thicknesses the file gives for the branch diameter d1
ThicknessesOfBranch(d1) ==
    { ValueOf(CallFile[i].T1) :
        i \in { j \in DOMAIN CallFile :
                  Holds(CallFile[j].D1, d1) /\ CallFile[j].T1.w # "empty" } }

\* the trimmed alternatives of the Execution cells of the rows of diameter d
ExecutionsOfDiameter(d) ==
    UNION { { x \in { SubSeq(piece, p, q) :
                        p \in 1 .. Len(piece) + 1, q \in 0 .. Len(piece) } :
                IsTrimOf(x, piece) } :
            piece \in UNION { PiecesOf(CallFile[i].Execution.s) :
                                i \in { j \in DOMAIN CallFile :
                                          Holds(CallFile[j].dn, d) } } }

\* the value the failed step of the last call rejected
OffendingValue ==
    CASE res.kind = "UnknownStandard" ->
            IF call.op = "PipeSupport"
            THEN FileName(call.a.support_type, call.a.gost_name)
            ELSE call.a.gost_name
      [] res.kind = "UnknownDimension" ->
            IF call.op \in {"PipeTee", "PipeTransition"} THEN call.a.dn1 ELSE call.a.dn
      [] res.kind = "UnknownThickness" ->
            IF call.op \in {"PipeTee", "PipeTransition"} THEN call.a.t1
            ELSE IF call.op = "Pipe" THEN ThicknessStr(call.a.t)
            ELSE call.a.t
      [] res.kind = "UnknownBranchDimension" -> call.a.dn2
      [] res.kind = "UnknownBranchThickness" -> call.a.t2
      [] res.kind = "NoMatchingCombination" ->
            <<call.a.dn1, call.a.t1, call.a.dn2, call.a.t2>>
      [] res.kind = "UnknownAngle" -> call.a.angle
      [] res.kind = "UnknownExecution" -> call.a.execution
      [] res.kind = "InstallationLengthExceeded" ->
            call.a[1] + call.a[2] + call.a[3]

\* the values the failed step of the last call would have accepted
ValidAlternatives ==
    CASE res.kind = "UnknownStandard" ->
            IF call.op = "Pipe" THEN Pipe__gost_paths ELSE gost_paths
      [] res.kind = "UnknownDimension" ->
            IF call.op \in {"PipeTee", "PipeTransition", "PipeElbow"}
            THEN ValuesOfColumn("D") ELSE ValuesOfColumn("dn")
      [] res.kind = "UnknownThickness" ->
            IF call.op \in {"PipeTee", "PipeTransition"}
            THEN ThicknessesOfDiameter(call.a.dn1)
            ELSE IF call.op = "Pipe" THEN {c.name : c \in PipeColumnsOfDn}
            ELSE ThicknessesOfDiameter(call.a.dn)
      [] res.kind = "UnknownBranchDimension" -> BranchDiametersOfDiameter(call.a.dn1)
      [] res.kind = "UnknownBranchThickness" -> ThicknessesOfBranch(call.a.dn2)
      [] res.kind = "NoMatchingCombination" -> PairsOfDiameterPair
      [] res.kind = "UnknownAngle" -> PermittedAngles
      [] res.kind = "UnknownExecution" -> ExecutionsOfDiameter(call.a.dn)
      [] res.kind = "InstallationLengthExceeded" -> {pipe.pipe_length}

ErrorKinds ==
    { "UnknownStandard", "UnknownDimension", "UnknownThickness",
      "UnknownBranchDimension", "UnknownBranchThickness", "NoMatchingCombination",
      "UnknownAngle", "UnknownExecution", "InstallationLengthExceeded" }

\* what an error lists, as a set (the executions of a support are a set
\* already, the other lists are sequences)
ListedAlternatives ==
    IF res.kind = "UnknownExecution" THEN res.available ELSE Range(res.available)

\* C11: every error of a construction or of install_pipe carries the value
\* that was rejected and the full set of values the failed step would have
\* accepted.
C11_ErrorsCarryAlternatives ==
    res.kind \in ErrorKinds =>
        /\ res.value = OffendingValue
        /\ ListedAlternatives = ValidAlternatives

---------------------------------------------------------------------------
(* SpecPipe: pipes of every length over one pipe table, and install_pipe *)

PipeFixedFile ==
    << [dn |-> IntCell(1000), c1 |-> CommaCell(1005), c2 |-> IntCell(2000)] >>

InitPipe ==
    /\ family = "pipe"
    /\ files = [DefaultFiles EXCEPT ![PipeStd] = PipeFixedFile]
    /\ cache = <<>>
    /\ used = <<>>
    /\ call = NoCall
    /\ res = NoRes
    /\ pipe = NoPipe

NewPipe == PipeCall(PipeArgs({1000}, {[int |-> TRUE, v |-> 4000]}, Lengths))

NextPipe == NewPipe \/ InstallPipe

SpecPipe == InitPipe /\ [][NextPipe]_vars

InstallSum == call.a[1] + call.a[2] + call.a[3]

\* C2: install_pipe(a, b, c) returns True exactly when a + b + c <=
\* pipe_length and fails with InstallationLengthExceeded otherwise; after a
\* success the three recorded lengths are a, b and c.
C2_InstallIffFits ==
    call.op = "install_pipe" =>
        /\ res.kind = "True" <=> InstallSum <= pipe.pipe_length
        /\ res.kind # "True" => res.kind = "InstallationLengthExceeded"
        /\ res.kind = "True" => pipe.installation = call.a

\* an installation that fills the pipe exactly succeeds
C2_Witness ==
    /\ call.op = "install_pipe"
    /\ res.kind = "True"
    /\ InstallSum = pipe.pipe_length
    /\ pipe.pipe_length > 0

C2_WitnessFail ==
    call.op = "install_pipe" /\ res.kind = "InstallationLengthExceeded"
    /\ InstallSum = pipe.pipe_length + 1

\* C3: a failing install_pipe call changes nothing of the pipe: length, mass,
\* mass per metre, dimensions and the recorded breakdown (or its absence)
\* stay as they were.
C3_FailedInstallKeepsPipe ==
    [][ (call'.op = "install_pipe" /\ res'.kind = "InstallationLengthExceeded")
            => pipe' = pipe ]_vars

\* a failed call after a successful one: the earlier breakdown is still there
C3_Witness ==
    /\ call.op = "install_pipe"
    /\ res.kind = "InstallationLengthExceeded"
    /\ pipe.installation # <<>>

C3_WitnessUnrecorded ==
    /\ call.op = "install_pipe"
    /\ res.kind = "InstallationLengthExceeded"
    /\ pipe.installation = <<>>

\* the sum of the breakdown a pipe records
RecordedSum(p) == p.installation[1] + p.installation[2] + p.installation[3]

\* C17: whatever install_pipe calls were made, a pipe records no breakdown or
\* one whose three lengths sum to at most pipe_length, and install_pipe
\* changes neither pipe_length nor pipe_mass.
C17_RecordedSumFits ==
    [][ /\ (pipe'.kind = "Pipe" /\ pipe'.installation # <<>>) =>
              RecordedSum(pipe') <= pipe'.pipe_length
        /\ call'.op = "install_pipe" =>
              /\ pipe'.pipe_length = pipe.pipe_length
              /\ pipe'.pipe_mass = pipe.pipe_mass ]_vars

\* a pipe filled to its length by one call has refused a later, longer one
C17_Witness ==
    /\ call.op = "install_pipe"
    /\ res.kind = "InstallationLengthExceeded"
    /\ pipe.installation # <<>>
    /\ RecordedSum(pipe) = pipe.pipe_length
    /\ pipe.pipe_length > 0

\* C18: after a successful install_pipe each of the three recorded lengths
\* lies between 0 and pipe_length.
C18_BucketsWithinPipe ==
    (call.op = "install_pipe" /\ res.kind = "True") =>
        \A i \in 1 .. 3 :
            0 <= pipe.installation[i] /\ pipe.installation[i] <= pipe.pipe_length

---------------------------------------------------------------------------
(* SpecMass: total masses over fractional masses, counts and lengths *)

MassCells ==
    { IntCell(3000), DotCell(2500), DotCell(500), DotCell(125), DotCell(1005),
      DotCell(15), DotCell(1234) }

MassFiles(m) ==
    [DefaultFiles EXCEPT
        ![TeeStd] = << [TeeRow(1000, IntCell(1000), 1000, 1000) EXCEPT !.mass = m] >>,
        ![TransitionStd] = << [TeeRow(1000, IntCell(1000), 1000, 1000) EXCEPT !.mass = m] >>,
        ![ElbowStd] = << [D |-> IntCell(1000), T |-> IntCell(1000), DN |-> IntCell(10000),
                          Mass_45 |-> m, Mass_60 |-> m, Mass_90 |-> m, Mass_180 |-> m] >>,
        ![PipeStd] = << [dn |-> IntCell(1000), c1 |-> Empty, c2 |-> m] >>]

InitMass ==
    /\ family = "any"
    /\ \E m \in MassCells : files = MassFiles(m)
    /\ cache = <<>>
    /\ used = <<>>
    /\ call = NoCall
    /\ res = NoRes
    /\ pipe = NoPipe

MassTeeArgs(std) ==
    { [dn1 |-> 1000, t1 |-> 1000, dn2 |-> 1000, t2 |-> 1000, count |-> n,
       gost_name |-> std] : n \in Counts }

MassElbowArgs ==
    { [dn |-> 1000, t |-> 1000, angle |-> 90, count |-> n, gost_name |-> ElbowStd]
      : n \in Counts }

MassPipeArgs ==
    { [gost_name |-> PipeStd, dn |-> 1000, t |-> [int |-> TRUE, v |-> 4000],
       length |-> l] : l \in Lengths }

WeighTee == TeeCall(MassTeeArgs(TeeStd))
WeighTransition == TransitionCall(MassTeeArgs(TransitionStd))
WeighElbow == ElbowCall(MassElbowArgs)
WeighPipe == PipeCall(MassPipeArgs)

NextMass == WeighTee \/ WeighTransition \/ WeighElbow \/ WeighPipe

SpecMass == InitMass /\ [][NextMass]_vars

\* t is p rounded to a multiple of unit: a nearest multiple, and the even one
\* when p lies halfway and the product is exact in binary
IsRounded(t, p, unit, exact) ==
    /\ t % unit = 0
    /\ 2 * (t - p) <= unit
    /\ 2 * (p - t) <= unit
    /\ (exact /\ 2 * (p % unit) = unit) => (t \div unit) % 2 = 0

\* C10: pipe_mass is length x mass_per_meter rounded to two decimals and an
\* Elbow's total_mass is count x mass_per_elbow rounded to two decimals, while
\* the total_mass of a Tee or Transition is count x mass rounded to an
\* integer.
C10_TwoRoundingRules ==
    /\ res.kind = "Pipe" =>
          /\ res.pipe_mass.k = "num"
          /\ IsRounded(res.pipe_mass.v, res.pipe_length * res.mass_per_meter.v, 10,
                       IsDyadic(res.mass_per_meter.v))
    /\ res.kind = "Elbow" =>
          /\ res.total_mass.k = "num"
          /\ IsRounded(res.total_mass.v, res.elbow_count * res.mass_per_elbow.v, 10,
                       IsDyadic(res.mass_per_elbow.v))
    /\ res.kind = "Tee" =>
          /\ res.total_mass.k = "num"
          /\ IsRounded(res.total_mass.v, res.tee_count * res.mass_per_tee.v, 1000,
                       IsDyadic(res.mass_per_tee.v))
    /\ res.kind = "Transition" =>
          /\ res.total_mass.k = "num"
          /\ IsRounded(res.total_mass.v, res.count * res.mass_per_transition.v, 1000,
                       IsDyadic(res.mass_per_transition.v))

\* a tee whose product lies halfway between two integers
C10_Witness ==
    /\ res.kind = "Tee"
    /\ 2 * ((res.tee_count * res.mass_per_tee.v) % 1000) = 1000

\* an elbow whose product lies halfway between two hundredths
C10_WitnessElbow ==
    /\ res.kind = "Elbow"
    /\ 2 * ((res.elbow_count * res.mass_per_elbow.v) % 10) = 10

\* the same mass and count give a Tee total with no decimals and an Elbow
\* total with two
C10_WitnessDiverge ==
    /\ res.kind = "Elbow"
    /\ res.total_mass.v % 1000 # 0

---------------------------------------------------------------------------
(* SpecComma: tees and transitions over tables written with decimal commas *)

CommaRows ==
    { [TeeRow(1000, t, 1000, 1000) EXCEPT !.mass = m] :
        t \in {IntCell(1000), CommaCell(1500)}, m \in {IntCell(3000), CommaCell(2500)} }

InitComma ==
    /\ family = "any"
    /\ \E f \in TablesOf(CommaRows) :
          files = [DefaultFiles EXCEPT ![TeeStd] = f, ![TransitionStd] = f]
    /\ cache = <<>>
    /\ used = <<>>
    /\ call = NoCall
    /\ res = NoRes
    /\ pipe = NoPipe

CommaTeeArgs(std) ==
    { [dn1 |-> 1000, t1 |-> t, dn2 |-> 1000, t2 |-> 1000, count |-> n,
       gost_name |-> std] : t \in {1000, 1500}, n \in Counts }

ReadTee == TeeCall(CommaTeeArgs(TeeStd))
ReadTransition == TransitionCall(CommaTeeArgs(TransitionStd))

NextComma == ReadTee \/ ReadTransition

SpecComma == InitComma /\ [][NextComma]_vars

\* C16: a table fetched by get_df_data holds a number wherever the file holds
\* one, also where the file writes it with a decimal comma, so that a Tee or
\* Transition whose four fields occur in a row of the file is constructed,
\* with the mass of that row as a number and a numeric total mass.
C16_CommaCellsAreNumbers ==
    /\ \A i \in DOMAIN cache :
          LET file == files[cache[i].name]
          IN \A r \in DOMAIN file :
                \A c \in DOMAIN file[r] :
                    file[r][c].w \in {"int", "dot", "comma"} =>
                        cache[i].df[r][c] = Num(file[r][c].v)
    /\ (IsTeeCall /\ \E i \in DOMAIN CallFile : TeeRowMatches(CallFile[i])) =>
          /\ res.kind \in {"Tee", "Transition"}
          /\ res.kind = "Tee" =>
                res.mass_per_tee = ValueOf(FirstRow(TeeRowMatches).mass)
          /\ res.kind = "Transition" =>
                res.mass_per_transition = ValueOf(FirstRow(TeeRowMatches).mass)
          /\ res.total_mass.k = "num"

---------------------------------------------------------------------------
(* SpecCache: get_df_data, called directly and by the constructors, over
   every registered name and unregistered ones *)

CacheFiles ==
    [n \in gost_paths |->
        CASE n = ElbowStd ->
                << [D |-> IntCell(1000), T |-> CommaCell(1500), DN |-> IntCell(10000),
                    Mass_45 |-> CommaCell(125), Mass_60 |-> CommaCell(250),
                    Mass_90 |-> CommaCell(1005), Mass_180 |-> IntCell(2000)] >>
          [] n \in {TeeStd, TransitionStd} ->
                << TeeRow(1000, IntCell(1000), 1000, 1000) >>
          [] n = SupportStd ->
                << [dn |-> IntCell(1000), Execution |-> TextCell(A11 \o <<"/">> \o AC11),
                    mass |-> CommaCell(2500)] >>
          [] OTHER -> PipeFixedFile]

InitCache ==
    /\ family = "any"
    /\ files = CacheFiles
    /\ cache = <<>>
    /\ used = <<>>
    /\ call = NoCall
    /\ res = NoRes
    /\ pipe = NoPipe

\* df = get_df_data(name), called directly
GetDfData ==
    \E n \in gost_paths \cup {UnknownStd} :
        LET got == get_df_data(cache, files, n)
        IN /\ call' = [op |-> "get_df_data", a |-> [gost_name |-> n]]
           /\ cache' = got.cache
           /\ used' = IF got.ok THEN Touch(used, n) ELSE used
           /\ res' = IF got.ok THEN [kind |-> "DataFrame", df |-> got.df]
                     ELSE UnknownStandardErr(n)
           /\ UNCHANGED <<files, pipe, family>>

\* one valid call per class, and one that names an unregistered standard
CacheTeeArgs(std) ==
    { a \in TeeArgs(std, {1}) :
        a.dn1 = 1000 /\ a.t1 = 1000 /\ a.dn2 = 1000 /\ a.t2 = 1000 }

CacheElbowArgs ==
    { a \in ElbowArgs({90}, {1}) :
        a.dn = 1000 /\ (a.t = 1500 \/ a.gost_name = UnknownStd) }

CacheSupportArgs ==
    { a \in SupportArgs :
        a.dn = 1000 /\ (a.execution = AC11 \/ a.gost_name = UnknownStd) }

FetchTee == TeeCall(CacheTeeArgs(TeeStd))
FetchTransition == TransitionCall(CacheTeeArgs(TransitionStd))
FetchElbow == ElbowCall(CacheElbowArgs)
FetchSupport == SupportCall(CacheSupportArgs)

NextCache ==
    \/ GetDfData
    \/ FetchTee
    \/ FetchTransition
    \/ FetchElbow
    \/ FetchSupport

SpecCache == InitCache /\ [][NextCache]_vars

\* the call c goes through get_df_data, with the name FetchedName(c)
Fetches(c) ==
    c.op \in {"get_df_data", "PipeTee", "PipeTransition", "PipeElbow", "PipeSupport"}

FetchedName(c) ==
    IF c.op = "PipeSupport" THEN FileName(c.a.support_type, c.a.gost_name)
    ELSE c.a.gost_name

Names(c) == {c[i].name : i \in DOMAIN c}

\* the CacheSize names served most recently
MostRecent(u) == {u[i] : i \in {j \in DOMAIN u : j > Len(u) - CacheSize}}

\* of the cached names, the one served longest ago
LeastRecent(c, u) ==
    LET pos(n) == CHOOSE i \in DOMAIN u : u[i] = n
    IN CHOOSE n \in Names(c) : \A m \in Names(c) : pos(n) <= pos(m)

\* C13: after any calls of get_df_data the cache holds at most 5 standards,
\* each once, and they are the ones served most recently; a hit evicts
\* nothing, and a load into a full cache evicts the cached standard whose last
\* service (load or hit) is the oldest.
C13_LeastRecentlyUsedEvicted ==
    [][ Fetches(call') =>
          LET n == FetchedName(call')
          IN /\ Len(cache') <= CacheSize
             /\ NoDuplicates([i \in DOMAIN cache' |-> cache'[i].name])
             /\ Names(cache') = MostRecent(used')
             /\ n \in Names(cache) => Names(cache') = Names(cache)
             /\ (n \notin Names(cache) /\ n \in gost_paths /\ Len(cache) = CacheSize) =>
                   Names(cache') = (Names(cache) \ {LeastRecent(cache, used)}) \cup {n}
      ]_vars

\* a sixth standard has been served: five are cached, the newest last, and
\* the one served longest ago is gone
C13_Witness ==
    /\ Len(cache) = CacheSize
    /\ Len(used) = CacheSize + 1
    /\ res.kind = "DataFrame"
    /\ cache[CacheSize].name = FetchedName(call)
    /\ used[1] \notin Names(cache)

\* C14: every call of get_df_data with an unregistered name fails with
\* UnknownStandard, no cache entry ever stands for such a name, and the
\* failing call leaves the cache, contents and order, as it was.
C14_UnknownStandardEveryCall ==
    [][ (Fetches(call') /\ FetchedName(call') \notin gost_paths) =>
          /\ res'.kind = "UnknownStandard"
          /\ cache' = cache
          /\ \A i \in DOMAIN cache' : cache'[i].name \in gost_paths ]_vars

\* an unregistered name asked of a full cache
C14_Witness ==
    /\ call.op = "get_df_data"
    /\ call.a.gost_name = UnknownStd
    /\ res.kind = "UnknownStandard"
    /\ Len(cache) = CacheSize

\* a support whose type and standard join to an unregistered name
C14_WitnessSupport ==
    /\ call.op = "PipeSupport"
    /\ res.kind = "UnknownStandard"
    /\ Len(cache) = CacheSize

\* C15: every table in the cache has the rows and cell values it was loaded
\* with, whatever Elbow, Tee, Transition and Support constructions, successful
\* or failing, have used it since.
C15_CachedTablesAsLoaded ==
    \A i \in DOMAIN cache : cache[i].df = read_csv(files[cache[i].name])

\* an Elbow was built from a mass the cache still holds as text
C15_Witness ==
    /\ res.kind = "Elbow"
    /\ res.mass_per_elbow = Num(1005)
    /\ \E i \in DOMAIN cache :
          cache[i].name = ElbowStd /\ cache[i].df[1].Mass_90 = NumText(1005)

\* a Support was built from a cell the cache still holds unsplit
C15_WitnessSupport ==
    /\ res.kind = "Support"
    /\ \E i \in DOMAIN cache :
          /\ cache[i].name = SupportStd
          /\ cache[i].df[1].Execution.s = A11 \o <<"/">> \o AC11

====
